---- MODULE Spec2Model ----
(***************************************************************************)
(* ListCal (listcal.h / listcal.cpp) and the fit/reject loop of            *)
(* ftscalibrate (ftscalibrate.cpp): line matching, selection of the fit    *)
(* set, the wavenumber-correction fit and the rejection of bad lines.      *)
(*                                                                         *)
(* Numbers.  The program computes in double.  The model computes in exact  *)
(* rational arithmetic: a finite value is a pair <<n, d>> in lowest terms  *)
(* with d > 0.  A square root is never evaluated: a value sqrt(q) is kept  *)
(* as the record [rad |-> q] and compared through squares.  Values that    *)
(* the code multiplies by LC_DATA_SCALE are kept as [k |-> LC_DATA_SCALE,  *)
(* x |-> q], the value being k * q, so that no product with 10^6 is ever   *)
(* squared.  A value that may be 0 / 0 or x / 0 carries a field kind, one  *)
(* of "sqrt" (finite), "nan" and "inf".                                    *)
(***************************************************************************)
EXTENDS Integers, Sequences, FiniteSets, TLC

----------------------------------------------------------------------------
(* Exact rational arithmetic *)

IAbs(n) == IF n < 0 THEN -n ELSE n

RECURSIVE Gcd(_, _)
Gcd(a, b) == IF b = 0 THEN a ELSE Gcd(b, a % b)

\* <<n, d>> in lowest terms, d > 0
Rat(n, d) ==
  LET g == Gcd(IAbs(n), IAbs(d))
      s == IF d < 0 THEN -1 ELSE 1
  IN  <<(s * n) \div g, (s * d) \div g>>

Zero == <<0, 1>>
One == <<1, 1>>
Int2Rat(n) == <<n, 1>>

RAdd(a, b) ==
  LET g == Gcd(a[2], b[2])
  IN  Rat(a[1] * (b[2] \div g) + b[1] * (a[2] \div g), (a[2] \div g) * b[2])

RNeg(a) == <<-a[1], a[2]>>
RSub(a, b) == RAdd(a, RNeg(b))

RMul(a, b) ==
  LET x == Rat(a[1], b[2])
      y == Rat(b[1], a[2])
  IN  <<x[1] * y[1], x[2] * y[2]>>

\* b # 0
RDiv(a, b) == RMul(a, Rat(b[2], b[1]))

RAbs(a) == <<IAbs(a[1]), a[2]>>
RSign(a) == IF a[1] > 0 THEN 1 ELSE IF a[1] < 0 THEN -1 ELSE 0
RLess(a, b) == RSign(RSub(a, b)) < 0
RLeq(a, b) == RSign(RSub(a, b)) <= 0
RSq(a) == RMul(a, a)

\* a < b for a, b >= 0, by continued fractions: no product is formed, so
\* numerators and denominators of any size can be compared
RECURSIVE RLessCF(_, _)
RLessCF(a, b) ==
  LET qa == a[1] \div a[2]
      qb == b[1] \div b[2]
      ra == a[1] % a[2]
      rb == b[1] % b[2]
  IN  IF qa # qb THEN qa < qb
      ELSE IF ra = 0 THEN rb > 0
      ELSE IF rb = 0 THEN FALSE
      ELSE RLessCF(<<b[2], rb>>, <<a[2], ra>>)

RECURSIVE RSum(_)
RSum(s) == IF s = <<>> THEN Zero ELSE RAdd(Head(s), RSum(Tail(s)))

----------------------------------------------------------------------------
(* Program constants *)

LC_DATA_SCALE == 1000000
LC_NO_ERROR == 0
LC_NO_OVERLAP == 18
LC_NEGATIVE_VALUE == 19
LC_NO_DATA == 20
LINE_NEGATIVE_WAVENUMBER == 10
LINE_NEGATIVE_PEAK == 11
LINE_NEGATIVE_WIDTH == 12

\* listcal.h: DEF_WAVE_CORRECTION 0.0, DEF_DISCRIMINATOR 0.1,
\* DEF_PEAK_THRESHOLD 50.0, DEF_DISCARD_LIMIT 2.0; xgline.h: DEF_POINT_SPACING 0.03
DEF_WAVE_CORRECTION == Zero
DEF_DISCRIMINATOR == Rat(1, 10)
DEF_PEAK_THRESHOLD == Int2Rat(50)
DEF_DISCARD_LIMIT == Int2Rat(2)
DEF_POINT_SPACING == Rat(3, 100)

----------------------------------------------------------------------------
(* Bounds of the model *)

\* longest line list that is loaded
MaxLines == 3

\* the wavenumbers a loaded line can have (raw values of the file records)
Wavenumbers == 1 .. 4

\* the peak heights a loaded line can have: below and at the default threshold
Peaks == {40, 50}
Widths == {10}

----------------------------------------------------------------------------
(* Line (line.cpp, and the getters of the class as xgline.h gives them) *)

NewLine(w, p, wd, c) ==
  [Wavenumber |-> w, Peak |-> p, Width |-> wd, WavenumberCorrection |-> c]

\* Line::Line (): every numeric property is 0.0
DefaultLine == NewLine(Zero, Zero, Zero, Zero)

\* double wavenumber () { return Wavenumber * (1.0 + WavenumberCorrection); }
LineWavenumber(l) == RMul(l.Wavenumber, RAdd(One, l.WavenumberCorrection))

\* double peak () { return Peak; }
LinePeak(l) == l.Peak

\* Faulty variant: the width is reported as it is stored
LineWidthUncorrected(l) == l.Width

\* double width () { return Width * (1.0 + WavenumberCorrection); }
LineWidth(l) == RMul(l.Width, RAdd(One, l.WavenumberCorrection))

\* double wavCorr () { return WavenumberCorrection; }
LineWavCorr(l) == l.WavenumberCorrection

\* The setters.  Each yields the int that is thrown (LC_NO_ERROR if the
\* setter returns) and the line as the call leaves it.

\* void Line::wavenumber (double NewWavenumber)
SetLineWavenumber(l, NewWavenumber) ==
  IF RSign(NewWavenumber) < 0
  THEN [thrown |-> LINE_NEGATIVE_WAVENUMBER, line |-> l]
  ELSE [thrown |-> LC_NO_ERROR, line |-> [l EXCEPT !.Wavenumber = NewWavenumber]]

\* void Line::peak (double NewPeak)
SetLinePeak(l, NewPeak) ==
  IF RSign(NewPeak) < 0
  THEN [thrown |-> LINE_NEGATIVE_PEAK, line |-> l]
  ELSE [thrown |-> LC_NO_ERROR, line |-> [l EXCEPT !.Peak = NewPeak]]

\* Faulty variant: a width of 0.0 is refused as well
SetLineWidthRefusesZero(l, NewWidth) ==
  IF RSign(NewWidth) <= 0
  THEN [thrown |-> LINE_NEGATIVE_WIDTH, line |-> l]
  ELSE [thrown |-> LC_NO_ERROR, line |-> [l EXCEPT !.Width = NewWidth]]

\* void Line::width (double NewWidth)
SetLineWidth(l, NewWidth) ==
  IF RSign(NewWidth) < 0
  THEN [thrown |-> LINE_NEGATIVE_WIDTH, line |-> l]
  ELSE [thrown |-> LC_NO_ERROR, line |-> [l EXCEPT !.Width = NewWidth]]

\* void wavCorr (double NewCorr) { WavenumberCorrection = NewCorr; }
SetLineWavCorr(l, NewCorr) == [l EXCEPT !.WavenumberCorrection = NewCorr]

\* void Line::operator= (Line Operator): every field is assigned from the
\* getter of the same name
AssignLine(Op) ==
  NewLine(LineWavenumber(Op), LinePeak(Op), LineWidth(Op), LineWavCorr(Op))

\* A double that is a square root or the result of a division by zero:
\* sqrt(rad), NaN or +Inf
Root(q) == [kind |-> "sqrt", rad |-> q]
NaN == [kind |-> "nan", rad |-> Zero]
Inf == [kind |-> "inf", rad |-> Zero]

\* double Line::getCentroidError (double PointSpacing), from the fields as
\* they are stored.  With PointsInFwhm = Width / (1000 * PointSpacing) > 0
\* and Peak > 0 the square of the result is
\* Width * PointSpacing / (1000 * Peak^2).
GetCentroidError(l, Spacing) ==
  IF RSign(l.Width) = 0
  THEN NaN                                   \* 0.0 / 0.0
  ELSE IF RSign(Spacing) = 0
  THEN Root(Zero)                            \* Width / Inf
  ELSE IF RSign(l.Width) * RSign(Spacing) < 0
  THEN NaN                                   \* sqrt of a negative number
  ELSE IF RSign(l.Peak) = 0
  THEN Inf                                   \* Width / 0.0
  ELSE Root(RDiv(RMul(RAbs(l.Width), RAbs(Spacing)),
                 RMul(Int2Rat(1000), RSq(l.Peak))))

----------------------------------------------------------------------------
(* ListCal::findCommonLines *)

\* Faulty variants of the loop, against which the properties of the
\* matching are tested.  The first compares with <= instead of <; the second
\* leaves the standard cursor in place after a pair.
RECURSIVE CommonLinesLoopInclusive(_, _, _, _)
CommonLinesLoopInclusive(list, std, disc, st) ==
  IF ~(st.ListIndex < Len(list) /\ st.StdIndex < Len(std))
  THEN st
  ELSE
    LET sw == LineWavenumber(std[st.StdIndex + 1])
        lw == LineWavenumber(list[st.ListIndex + 1])
    IN  IF RLeq(RAbs(RSub(sw, lw)), disc)
        THEN CommonLinesLoopInclusive(list, std, disc,
               [ListIndex |-> st.ListIndex + 1,
                StdIndex |-> st.StdIndex + 1,
                CommonLines |-> Append(st.CommonLines,
                  [List |-> st.ListIndex + 1, Standard |-> st.StdIndex + 1])])
        ELSE IF RLess(sw, lw)
        THEN CommonLinesLoopInclusive(list, std, disc,
               [st EXCEPT !.StdIndex = st.StdIndex + 1])
        ELSE CommonLinesLoopInclusive(list, std, disc,
               [st EXCEPT !.ListIndex = st.ListIndex + 1])

\* A third faulty variant: both cursors advance when the lines do not match
RECURSIVE CommonLinesLoopSkipBoth(_, _, _, _)
CommonLinesLoopSkipBoth(list, std, disc, st) ==
  IF ~(st.ListIndex < Len(list) /\ st.StdIndex < Len(std))
  THEN st
  ELSE
    LET sw == LineWavenumber(std[st.StdIndex + 1])
        lw == LineWavenumber(list[st.ListIndex + 1])
    IN  IF RLess(RAbs(RSub(sw, lw)), disc)
        THEN CommonLinesLoopSkipBoth(list, std, disc,
               [ListIndex |-> st.ListIndex + 1,
                StdIndex |-> st.StdIndex + 1,
                CommonLines |-> Append(st.CommonLines,
                  [List |-> st.ListIndex + 1, Standard |-> st.StdIndex + 1])])
        ELSE CommonLinesLoopSkipBoth(list, std, disc,
               [st EXCEPT !.ListIndex = st.ListIndex + 1,
                          !.StdIndex = st.StdIndex + 1])

RECURSIVE CommonLinesLoopReuseStd(_, _, _, _)
CommonLinesLoopReuseStd(list, std, disc, st) ==
  IF ~(st.ListIndex < Len(list) /\ st.StdIndex < Len(std))
  THEN st
  ELSE
    LET sw == LineWavenumber(std[st.StdIndex + 1])
        lw == LineWavenumber(list[st.ListIndex + 1])
    IN  IF RLess(RAbs(RSub(sw, lw)), disc)
        THEN CommonLinesLoopReuseStd(list, std, disc,
               [ListIndex |-> st.ListIndex + 1,
                StdIndex |-> st.StdIndex,
                CommonLines |-> Append(st.CommonLines,
                  [List |-> st.ListIndex + 1, Standard |-> st.StdIndex + 1])])
        ELSE IF RLess(sw, lw)
        THEN CommonLinesLoopReuseStd(list, std, disc,
               [st EXCEPT !.StdIndex = st.StdIndex + 1])
        ELSE CommonLinesLoopReuseStd(list, std, disc,
               [st EXCEPT !.ListIndex = st.ListIndex + 1])

\* The while loop of findCommonLines, one iteration per unfolding.  st holds
\* the locals ListIndex and StdIndex (counted from 0 as in the code) and
\* the CommonLines vector.  A LinePair holds two pointers; a pointer to
\* FullLineList[i] or StandardList[j] is kept as the position i + 1, j + 1.
RECURSIVE CommonLinesLoop(_, _, _, _)
CommonLinesLoop(list, std, disc, st) ==
  IF ~(st.ListIndex < Len(list) /\ st.StdIndex < Len(std))
  THEN st
  ELSE
    LET sw == LineWavenumber(std[st.StdIndex + 1])
        lw == LineWavenumber(list[st.ListIndex + 1])
        Difference == RSub(sw, lw)
    IN  IF RLess(RAbs(Difference), disc)
        THEN CommonLinesLoop(list, std, disc,
               [ListIndex |-> st.ListIndex + 1,
                StdIndex |-> st.StdIndex + 1,
                CommonLines |-> Append(st.CommonLines,
                  [List |-> st.ListIndex + 1, Standard |-> st.StdIndex + 1])])
        ELSE IF RLess(sw, lw)
        THEN CommonLinesLoop(list, std, disc,
               [st EXCEPT !.StdIndex = st.StdIndex + 1])
        ELSE CommonLinesLoop(list, std, disc,
               [st EXCEPT !.ListIndex = st.ListIndex + 1])

\* Faulty variants of the call: one clears CommonLines before it looks at
\* the lists, the other returns when nothing was paired.
FindCommonLinesCallClearFirst(list, std, disc, common) ==
  IF Len(list) = 0 \/ Len(std) = 0
  THEN [thrown |-> LC_NO_DATA, CommonLines |-> <<>>]
  ELSE
    LET st == CommonLinesLoop(list, std, disc,
                [ListIndex |-> 0, StdIndex |-> 0, CommonLines |-> <<>>])
    IN  IF Len(st.CommonLines) = 0
        THEN [thrown |-> LC_NO_OVERLAP, CommonLines |-> st.CommonLines]
        ELSE [thrown |-> LC_NO_ERROR, CommonLines |-> st.CommonLines]

FindCommonLinesCallNoOverlapCheck(list, std, disc, common) ==
  IF Len(list) = 0 \/ Len(std) = 0
  THEN [thrown |-> LC_NO_DATA, CommonLines |-> common]
  ELSE
    LET st == CommonLinesLoop(list, std, disc,
                [ListIndex |-> 0, StdIndex |-> 0, CommonLines |-> <<>>])
    IN  [thrown |-> LC_NO_ERROR, CommonLines |-> st.CommonLines]

\* The whole call: the code it throws (LC_NO_ERROR when it returns) and the
\* CommonLines it leaves
FindCommonLinesCall(list, std, disc, common) ==
  IF Len(list) = 0 \/ Len(std) = 0
  THEN [thrown |-> LC_NO_DATA, CommonLines |-> common]
  ELSE
    LET st == CommonLinesLoop(list, std, disc,
                [ListIndex |-> 0, StdIndex |-> 0, CommonLines |-> <<>>])
    IN  IF Len(st.CommonLines) = 0
        THEN [thrown |-> LC_NO_OVERLAP, CommonLines |-> st.CommonLines]
        ELSE [thrown |-> LC_NO_ERROR, CommonLines |-> st.CommonLines]

----------------------------------------------------------------------------
(* ListCal::findFittedLines *)

\* Faulty variant: the amplitude must exceed the threshold
RECURSIVE FittedLinesLoopStrict(_, _, _, _, _)
FittedLinesLoopStrict(list, common, threshold, i, fitted) ==
  IF ~(i < Len(common))
  THEN fitted
  ELSE FittedLinesLoopStrict(list, common, threshold, i + 1,
         IF RLess(threshold, LinePeak(list[common[i + 1].List]))
         THEN Append(fitted, i + 1)
         ELSE fitted)

\* The for loop over CommonLines, from index i (counted from 0).  An element
\* of FittedLines is a pointer to CommonLines[i], kept as the position i + 1.
RECURSIVE FittedLinesLoop(_, _, _, _, _)
FittedLinesLoop(list, common, threshold, i, fitted) ==
  IF ~(i < Len(common))
  THEN fitted
  ELSE FittedLinesLoop(list, common, threshold, i + 1,
         IF RLeq(threshold, LinePeak(list[common[i + 1].List]))
         THEN Append(fitted, i + 1)
         ELSE fitted)

FindFittedLinesCall(list, common, threshold, fitted) ==
  IF Len(common) = 0
  THEN [thrown |-> LC_NO_DATA, FittedLines |-> fitted]
  ELSE [thrown |-> LC_NO_ERROR,
        FittedLines |-> FittedLinesLoop(list, common, threshold, 0, <<>>)]

----------------------------------------------------------------------------
(* Residuals: fitFn, and the Difference of removeBadLines and calcDiffStats *)

\* FittedLines[i] -> List -> wavenumber() and -> Standard -> wavenumber()
ListWavenumber(list, common, ptr) == LineWavenumber(list[common[ptr].List])
StdWavenumber(std, common, ptr) == LineWavenumber(std[common[ptr].Standard])

\* (L * (1.0 + Step) - S) * LC_DATA_SCALE / S, the value being k * x
Scaled(q) == [k |-> LC_DATA_SCALE, x |-> q]
Residual(L, S, Step) ==
  Scaled(RDiv(RSub(RMul(L, RAdd(One, Step)), S), S))

\* fitFn: the vector f, one residual per fitted line
FitFn(list, std, common, fitted, Step) ==
  [i \in 1 .. Len(fitted) |->
     Residual(ListWavenumber(list, common, fitted[i]),
              StdWavenumber(std, common, fitted[i]), Step)]

\* derivFn: every element of the Jacobian is set to LC_DATA_SCALE
DerivFn(list, std, common, fitted, i) == Int2Rat(LC_DATA_SCALE)

----------------------------------------------------------------------------
(* The solver loop of findCorrection                                       *)
(*                                                                         *)
(* gsl_multifit_fdfsolver_iterate is outside the repository.  What the     *)
(* model keeps of it: a Levenberg-Marquardt step is computed from J^T f,   *)
(* with f from fitFn and J from derivFn, so the iteration stops moving     *)
(* (gsl_multifit_test_delta succeeds) where sum_i J_i * f_i = 0; or an     *)
(* iteration returns an error status, the loop breaks, and x is still the  *)
(* initial guess.  findCorrection reads Solver->x in both cases.           *)
(***************************************************************************)

\* sum_i J_i * (f_i / LC_DATA_SCALE) at Step
JtF(list, std, common, fitted, Step) ==
  LET f == FitFn(list, std, common, fitted, Step)
  IN  RSum([i \in 1 .. Len(fitted) |->
              RMul(DerivFn(list, std, common, fitted, i), f[i].x)])

\* Faulty variant: the step is taken away from the zero
StationaryStepReversed(list, std, common, fitted) ==
  LET g0 == JtF(list, std, common, fitted, Zero)
      g1 == JtF(list, std, common, fitted, One)
  IN  RDiv(g0, RSub(g1, g0))

\* f is linear in Step: the zero of Step |-> JtF(Step)
StationaryStep(list, std, common, fitted) ==
  LET g0 == JtF(list, std, common, fitted, Zero)
      g1 == JtF(list, std, common, fitted, One)
  IN  RDiv(g0, RSub(g0, g1))

SolverOutcomes(list, std, common, fitted, guess) ==
  { [status |-> "converged", x |-> StationaryStep(list, std, common, fitted)],
    [status |-> "failed", x |-> guess] }

\* c * ERR(0), with chi = gsl_blas_dnrm2 (f), dof = NumLines - 1,
\* c = chi / sqrt (dof) and ERR(0) = sqrt of the covariance (J^T J)^-1.
\* chi^2 = LC_DATA_SCALE^2 * sum (f_i.x)^2 and J^T J = LC_DATA_SCALE^2 *
\* sum (J_i / LC_DATA_SCALE)^2; the factor LC_DATA_SCALE^2 cancels.
\* With dof = 0 the division chi / sqrt (0.0) gives NaN (chi = 0) or Inf.
CorrectionError(list, std, common, fitted, Step) ==
  LET n == Len(fitted)
      f == FitFn(list, std, common, fitted, Step)
      chi2 == RSum([i \in 1 .. n |-> RSq(f[i].x)])
      jtj == RSum([i \in 1 .. n |->
               RSq(RDiv(DerivFn(list, std, common, fitted, i),
                        Int2Rat(LC_DATA_SCALE)))])
      dof == n - 1
  IN  IF dof = 0
      THEN [kind |-> IF chi2 = Zero THEN "nan" ELSE "inf", rad |-> Zero]
      ELSE [kind |-> "sqrt", rad |-> RDiv(chi2, RMul(Int2Rat(dof), jtj))]

----------------------------------------------------------------------------
(* ListCal::calcDiffStats, for a non-empty FittedLines *)

\* Faulty variant: the standard error is DiffStdDev / FittedLines.size ()
CalcDiffStatsErrOverSize(list, std, common, fitted, corr) ==
  LET n == Len(fitted)
      d == FitFn(list, std, common, fitted, corr)
      mean == RDiv(RSum([i \in 1 .. n |-> d[i].x]), Int2Rat(n))
      ss == RSum([i \in 1 .. n |-> RSq(RSub(d[i].x, mean))])
      var == RDiv(ss, Int2Rat(n))
  IN  [DiffMean |-> Scaled(mean),
       DiffStdDev |-> [k |-> LC_DATA_SCALE, rad |-> var],
       DiffStdErr |-> [k |-> LC_DATA_SCALE, rad |-> RDiv(var, Int2Rat(n * n))]]

\* DiffMean = k * x; DiffStdDev and DiffStdErr = k * sqrt(rad)
CalcDiffStats(list, std, common, fitted, corr) ==
  LET n == Len(fitted)
      d == FitFn(list, std, common, fitted, corr)
      mean == RDiv(RSum([i \in 1 .. n |-> d[i].x]), Int2Rat(n))
      ss == RSum([i \in 1 .. n |-> RSq(RSub(d[i].x, mean))])
      var == RDiv(ss, Int2Rat(n))
  IN  [DiffMean |-> Scaled(mean),
       DiffStdDev |-> [k |-> LC_DATA_SCALE, rad |-> var],
       DiffStdErr |-> [k |-> LC_DATA_SCALE, rad |-> RDiv(var, Int2Rat(n))]]

----------------------------------------------------------------------------
(* ListCal::removeBadLines *)

\* a > c * sqrt(v), for v >= 0
GreaterThanRoot(a, c, v) ==
  LET rhs2 == RMul(RSq(c), v)
  IN  IF RSign(c) >= 0
      THEN RSign(a) > 0 /\ RLess(rhs2, RSq(a))
      ELSE RSign(a) >= 0 \/ RLess(RSq(a), rhs2)

\* Faulty variant: the test is >= instead of >
IsBadLineInclusive(Difference, mean, limit, stddev) ==
  LET a == RSub(RAbs(Difference.x), RAbs(mean.x))
      rhs2 == RMul(RSq(limit), stddev.rad)
  IN  IF RSign(limit) >= 0
      THEN RSign(a) >= 0 /\ RLeq(rhs2, RSq(a))
      ELSE RSign(a) >= 0 \/ RLeq(RSq(a), rhs2)

\* Faulty variant: the limit is DiscardLimit * DiffStdDev, as the comment
\* above removeBadLines words it, without abs(DiffMean)
IsBadLineNoMean(Difference, mean, limit, stddev) ==
  GreaterThanRoot(RAbs(Difference.x), limit, stddev.rad)

\* Faulty variant: the band is one standard deviation, whatever DiscardLimit
IsBadLineOneSigma(Difference, mean, limit, stddev) ==
  GreaterThanRoot(RSub(RAbs(Difference.x), RAbs(mean.x)), One, stddev.rad)

\* abs(Difference) > abs(DiffMean) + DiscardLimit * DiffStdDev.  The three
\* values carry the same factor k = LC_DATA_SCALE > 0, which is divided out.
IsBadLine(Difference, mean, limit, stddev) ==
  GreaterThanRoot(RSub(RAbs(Difference.x), RAbs(mean.x)), limit, stddev.rad)

\* Faulty variants of the loop: one does not count the lines it removes,
\* the other does not erase the line from FittedLines.
RECURSIVE RemoveBadLinesLoopUncounted(_, _, _, _, _, _, _, _, _)
RemoveBadLinesLoopUncounted(list, std, common, corr, mean, limit, stddev, i, st) ==
  IF ~(i >= 0)
  THEN st
  ELSE
    LET Difference ==
          Residual(ListWavenumber(list, common, st.FittedLines[i + 1]),
                   StdWavenumber(std, common, st.FittedLines[i + 1]), corr)
    IN  IF GreaterThanRoot(RSub(RAbs(Difference.x), RAbs(mean.x)), limit, stddev.rad)
        THEN RemoveBadLinesLoopUncounted(list, std, common, corr, mean, limit, stddev, i - 1,
               [FittedLines |->
                  SubSeq(st.FittedLines, 1, i) \o
                  SubSeq(st.FittedLines, i + 2, Len(st.FittedLines)),
                DiscardedLines |->
                  Append(st.DiscardedLines, st.FittedLines[i + 1]),
                LinesRemoved |-> st.LinesRemoved])
        ELSE RemoveBadLinesLoopUncounted(list, std, common, corr, mean, limit, stddev, i - 1, st)

RECURSIVE RemoveBadLinesLoopNoErase(_, _, _, _, _, _, _, _, _)
RemoveBadLinesLoopNoErase(list, std, common, corr, mean, limit, stddev, i, st) ==
  IF ~(i >= 0)
  THEN st
  ELSE
    LET Difference ==
          Residual(ListWavenumber(list, common, st.FittedLines[i + 1]),
                   StdWavenumber(std, common, st.FittedLines[i + 1]), corr)
    IN  IF GreaterThanRoot(RSub(RAbs(Difference.x), RAbs(mean.x)), limit, stddev.rad)
        THEN RemoveBadLinesLoopNoErase(list, std, common, corr, mean, limit, stddev, i - 1,
               [FittedLines |->
                  st.FittedLines,
                DiscardedLines |->
                  Append(st.DiscardedLines, st.FittedLines[i + 1]),
                LinesRemoved |-> st.LinesRemoved + 1])
        ELSE RemoveBadLinesLoopNoErase(list, std, common, corr, mean, limit, stddev, i - 1, st)

\* Faulty variant of the loop: the erased line is not pushed onto
\* DiscardedLines
RECURSIVE RemoveBadLinesLoopNoPush(_, _, _, _, _, _, _, _, _)
RemoveBadLinesLoopNoPush(list, std, common, corr, mean, limit, stddev, i, st) ==
  IF ~(i >= 0)
  THEN st
  ELSE
    LET Difference ==
          Residual(ListWavenumber(list, common, st.FittedLines[i + 1]),
                   StdWavenumber(std, common, st.FittedLines[i + 1]), corr)
    IN  IF GreaterThanRoot(RSub(RAbs(Difference.x), RAbs(mean.x)), limit, stddev.rad)
        THEN RemoveBadLinesLoopNoPush(list, std, common, corr, mean, limit, stddev, i - 1,
               [FittedLines |->
                  SubSeq(st.FittedLines, 1, i) \o
                  SubSeq(st.FittedLines, i + 2, Len(st.FittedLines)),
                DiscardedLines |-> st.DiscardedLines,
                LinesRemoved |-> st.LinesRemoved + 1])
        ELSE RemoveBadLinesLoopNoPush(list, std, common, corr, mean, limit, stddev, i - 1, st)

\* The for loop, from i (counted from 0) down to 0.  st holds FittedLines,
\* DiscardedLines and LinesRemoved.
RECURSIVE RemoveBadLinesLoop(_, _, _, _, _, _, _, _, _)
RemoveBadLinesLoop(list, std, common, corr, mean, limit, stddev, i, st) ==
  IF ~(i >= 0)
  THEN st
  ELSE
    LET Difference ==
          Residual(ListWavenumber(list, common, st.FittedLines[i + 1]),
                   StdWavenumber(std, common, st.FittedLines[i + 1]), corr)
    IN  IF IsBadLine(Difference, mean, limit, stddev)
        THEN RemoveBadLinesLoop(list, std, common, corr, mean, limit, stddev, i - 1,
               [FittedLines |->
                  SubSeq(st.FittedLines, 1, i) \o
                  SubSeq(st.FittedLines, i + 2, Len(st.FittedLines)),
                DiscardedLines |->
                  Append(st.DiscardedLines, st.FittedLines[i + 1]),
                LinesRemoved |-> st.LinesRemoved + 1])
        ELSE RemoveBadLinesLoop(list, std, common, corr, mean, limit, stddev, i - 1, st)

\* Faulty variant of the call: DiscardedLines is cleared first, as
\* findCommonLines and findFittedLines clear the vector they fill
RemoveBadLinesCallClearDiscarded(list, std, common, corr, mean, limit, stddev, fitted, discarded) ==
  RemoveBadLinesLoop(list, std, common, corr, mean, limit, stddev,
    Len(fitted) - 1,
    [FittedLines |-> fitted, DiscardedLines |-> <<>>, LinesRemoved |-> 0])

\* The whole call: the two vectors it leaves and the int it returns.  It
\* assigns to no other member of the object.
RemoveBadLinesCall(list, std, common, corr, mean, limit, stddev, fitted, discarded) ==
  RemoveBadLinesLoop(list, std, common, corr, mean, limit, stddev,
    Len(fitted) - 1,
    [FittedLines |-> fitted, DiscardedLines |-> discarded, LinesRemoved |-> 0])

----------------------------------------------------------------------------
(* ListCal::saveLineList *)

\* The values of the report are products and sums of squares whose exact
\* numerators exceed 32 bits, so they are kept unevaluated.  A term
\* [w, rad] stands for the square w^2 * rad, with w >= 0 and rad >= 0.
Term(w, r) == [w |-> w, rad |-> r]

\* t < u for two terms.  Both are compared through (t.w / u.w)^2 <
\* u.rad / t.rad, and the square is formed only when the integer part of
\* t.w / u.w does not decide.
TermLess(t, u) ==
  IF RSign(u.w) = 0 \/ RSign(u.rad) = 0 THEN FALSE
  ELSE IF RSign(t.w) = 0 \/ RSign(t.rad) = 0 THEN TRUE
  ELSE LET r == RDiv(t.w, u.w)
           q == RDiv(u.rad, t.rad)
           k == r[1] \div r[2]
       IN  IF ~RLessCF(Int2Rat(k * k), q) THEN FALSE
           ELSE IF ~RLessCF(q, Int2Rat((k + 1) * (k + 1))) THEN TRUE
           ELSE RLessCF(RSq(r), q)

\* w * a, for a wavenumber w >= 0 and a = sqrt (a.rad), NaN or Inf: the
\* value is w * sqrt (rad)
Times(w, a) ==
  IF a.kind = "inf" /\ RSign(w) = 0
  THEN [kind |-> "nan", w |-> w, rad |-> Zero]
  ELSE [kind |-> a.kind, w |-> w, rad |-> a.rad]

\* sqrt (pow (a, 2) + pow (b, 2)) for a = a.w * sqrt (a.rad) and b likewise:
\* the value is the square root of the sum of the two terms
Hypot(a, b) ==
  [kind |-> IF a.kind = "nan" \/ b.kind = "nan" THEN "nan"
            ELSE IF a.kind = "inf" \/ b.kind = "inf" THEN "inf"
            ELSE "sqrt",
   sum |-> <<Term(a.w, a.rad), Term(b.w, b.rad)>>]

\* a < b for two values of Hypot with the same first term, which is left
\* out of the comparison: false when either is NaN
HypotLess(a, b) ==
  /\ a.kind # "nan" /\ b.kind # "nan"
  /\ a.kind = "sqrt"
  /\ b.kind = "inf" \/ TermLess(a.sum[2], b.sum[2])

\* std::max (a, b): (a < b) ? b : a
HypotMax(a, b) == IF HypotLess(a, b) THEN b ELSE a

\* SavedLines: a copy of every line of FullLineList, then wavCorr
\* (getWaveCorrection ()) on the copy
SavedLinesOf(list, corr) ==
  [i \in 1 .. Len(list) |-> SetLineWavCorr(list[i], corr)]

\* what writeLines writes for SavedLines: the wavcorr of the header, taken
\* from the first line, and the wavenumber, peak and width of the line
\* string of every line.  When the first line's wavcorr is 0 the header of
\* the file read last is repeated; that is the standard list, which has a
\* "NO" header (wavcorr = 0) in every file above.
WriteLines(Lines) ==
  [wavcorr |-> LineWavCorr(Lines[1]),
   records |-> [i \in 1 .. Len(Lines) |->
                  [wavenumber |-> LineWavenumber(Lines[i]),
                   peak |-> LinePeak(Lines[i]),
                   width |-> LineWidth(Lines[i])]]]

\* one row of the .cal file, for the i-th line of SavedLines; DiffStdDev /
\* LC_DATA_SCALE is sqrt (stddev.rad).  w * FullErrorStdDev is w * sqrt
\* (e^2 + s^2), which is Hypot (w * e, w * s).
ReportRow(Lines, i, corrErr, stddev, spacing) ==
  LET w == LineWavenumber(Lines[i])
      FullErrorBrault ==
        Hypot(Times(w, corrErr),
              Times(One, GetCentroidError(Lines[i], spacing)))
  IN  [n |-> i,
       Wavenumber |-> w,
       ScaleError |-> Times(w, corrErr),
       StdDevError |-> Times(w, Root(stddev.rad)),
       BraultError |-> GetCentroidError(Lines[i], spacing),
       FullError |->
         HypotMax(Hypot(Times(w, corrErr), Times(w, Root(stddev.rad))),
                  FullErrorBrault)]

\* the for loop over SavedLines
ReportRows(Lines, corrErr, stddev, spacing) ==
  [i \in 1 .. Len(Lines) |-> ReportRow(Lines, i, corrErr, stddev, spacing)]

----------------------------------------------------------------------------
(* The state of a ListCal object and of main *)

VARIABLES
  FullLineList,         \* vector <Line>: the uncalibrated lines
  StandardList,         \* vector <Line>: the standard lines
  CommonLines,          \* vector <LinePair>
  FittedLines,          \* vector <LinePair*>: positions in CommonLines
  DiscardedLines,       \* vector <LinePair*>: positions in CommonLines
  WaveCorrection,
  WaveCorrectionError,
  Discriminator,
  PeakAmpThreshold,
  DiscardLimit,
  PointSpacing,
  DiffMean,
  DiffStdDev,
  DiffStdErr,
  call,                 \* the last call made on the object and how it ended
  running,              \* FALSE once the process has been aborted
  pc,                   \* main: the statement that is executed next
  NumLinesRemoved,      \* main: the local of that name
  rounds,               \* main: calls of findCorrection made so far
  selected,             \* FittedLines as the last findFittedLines left it
  line,                 \* a Line object of its own
  LineData,             \* the record from which line was last constructed
  Operator,             \* the Line that was last assigned to line
  SavedLines,           \* saveLineList: the lines given to writeLines
  LineFile              \* saveLineList: the rows written to the .cal file

lists == <<FullLineList, StandardList>>
config == <<Discriminator, PeakAmpThreshold, DiscardLimit, PointSpacing>>
fitState ==
  <<WaveCorrection, WaveCorrectionError, DiffMean, DiffStdDev, DiffStdErr>>
derived == <<CommonLines, FittedLines, DiscardedLines>>
mainVars == <<pc, NumLinesRemoved, rounds>>
lineVars == <<line, LineData, Operator>>
outVars == <<SavedLines, LineFile>>
vars ==
  <<lists, config, fitState, derived, call, running, mainVars, selected,
    lineVars, outVars>>

\* How a call ended: the int it threw (LC_NO_ERROR if it returned) and the
\* int it returned (0 for a void function)
Call(op, thrown, value) == [op |-> op, thrown |-> thrown, value |-> value]

\* no record: line was not constructed from a record
NoLineData == [wavenumber |-> Zero, peak |-> Zero, width |-> Zero]

\* ListCal::ListCal
Init ==
  /\ FullLineList = <<>>
  /\ StandardList = <<>>
  /\ CommonLines = <<>>
  /\ FittedLines = <<>>
  /\ DiscardedLines = <<>>
  /\ WaveCorrection = DEF_WAVE_CORRECTION
  /\ WaveCorrectionError = [kind |-> "sqrt", rad |-> Zero]
  /\ Discriminator = DEF_DISCRIMINATOR
  /\ PeakAmpThreshold = DEF_PEAK_THRESHOLD
  /\ DiscardLimit = DEF_DISCARD_LIMIT
  /\ PointSpacing = DEF_POINT_SPACING
  /\ DiffMean = Scaled(Zero)
  /\ DiffStdDev = [k |-> LC_DATA_SCALE, rad |-> Zero]
  /\ DiffStdErr = [k |-> LC_DATA_SCALE, rad |-> Zero]
  /\ call = Call("ListCal", LC_NO_ERROR, 0)
  /\ running = TRUE
  /\ pc = "args"
  /\ NumLinesRemoved = 0
  /\ rounds = 0
  /\ selected = <<>>
  /\ line = DefaultLine
  /\ LineData = NoLineData
  /\ Operator = DefaultLine
  /\ SavedLines = <<>>
  /\ LineFile = <<>>

----------------------------------------------------------------------------
(* The methods of ListCal.  None of them touches the variables of main. *)

\* setDiscriminator, setPeakAmpThreshold, setDiscardLimit: the value is
\* stored if it is >= 0.0, and LC_NEGATIVE_VALUE is thrown otherwise
SetDiscriminator(v) ==
  /\ running
  /\ IF RSign(v) >= 0
     THEN /\ Discriminator' = v
          /\ call' = Call("setDiscriminator", LC_NO_ERROR, 0)
     ELSE /\ Discriminator' = Discriminator
          /\ call' = Call("setDiscriminator", LC_NEGATIVE_VALUE, 0)
  /\ UNCHANGED <<lists, PeakAmpThreshold, DiscardLimit, PointSpacing,
                 fitState, derived, running, selected>>

SetPeakAmpThreshold(v) ==
  /\ running
  /\ IF RSign(v) >= 0
     THEN /\ PeakAmpThreshold' = v
          /\ call' = Call("setPeakAmpThreshold", LC_NO_ERROR, 0)
     ELSE /\ PeakAmpThreshold' = PeakAmpThreshold
          /\ call' = Call("setPeakAmpThreshold", LC_NEGATIVE_VALUE, 0)
  /\ UNCHANGED <<lists, Discriminator, DiscardLimit, PointSpacing,
                 fitState, derived, running, selected>>

SetDiscardLimit(v) ==
  /\ running
  /\ IF RSign(v) >= 0
     THEN /\ DiscardLimit' = v
          /\ call' = Call("setDiscardLimit", LC_NO_ERROR, 0)
     ELSE /\ DiscardLimit' = DiscardLimit
          /\ call' = Call("setDiscardLimit", LC_NEGATIVE_VALUE, 0)
  /\ UNCHANGED <<lists, Discriminator, PeakAmpThreshold, PointSpacing,
                 fitState, derived, running, selected>>

\* setPointSpacing stores any value
SetPointSpacing(v) ==
  /\ running
  /\ PointSpacing' = v
  /\ call' = Call("setPointSpacing", LC_NO_ERROR, 0)
  /\ UNCHANGED <<lists, Discriminator, PeakAmpThreshold, DiscardLimit,
                 fitState, derived, running, selected>>

\* Faulty variant: the correction is removed from the wavenumber only
CreateLineKeepWidth(rec, WavCorr) ==
  NewLine(RDiv(rec.wavenumber, RAdd(One, WavCorr)), rec.peak, rec.width, WavCorr)

\* Line::Line (LineData, NewWaveCorr) and createLine: the fields are read
\* from the record as they are written, then the correction of the list
\* header is removed from the wavenumber and from the width
CreateLine(rec, WavCorr) ==
  NewLine(RDiv(rec.wavenumber, RAdd(One, WavCorr)), rec.peak,
          RDiv(rec.width, RAdd(One, WavCorr)), WavCorr)

\* readLineList: Lines -> clear () and one push_back per record of the file
ReadLineList(file) ==
  [i \in 1 .. Len(file.records) |-> CreateLine(file.records[i], file.wavcorr)]

LoadLineList(file) ==
  /\ running
  /\ FullLineList' = ReadLineList(file)
  /\ call' = Call("loadLineList", LC_NO_ERROR, 0)
  /\ UNCHANGED <<StandardList, config, fitState, derived, running, selected>>

LoadStandardList(file) ==
  /\ running
  /\ StandardList' = ReadLineList(file)
  /\ call' = Call("loadStandardList", LC_NO_ERROR, 0)
  /\ UNCHANGED <<FullLineList, config, fitState, derived, running, selected>>

FindCommonLines ==
  /\ running
  /\ LET r == FindCommonLinesCall(FullLineList, StandardList, Discriminator,
                                  CommonLines)
     IN  /\ CommonLines' = r.CommonLines
         /\ call' = Call("findCommonLines", r.thrown, 0)
  /\ UNCHANGED <<lists, config, fitState, FittedLines, DiscardedLines,
                 running, selected>>

FindFittedLines ==
  /\ running
  /\ LET r == FindFittedLinesCall(FullLineList, CommonLines, PeakAmpThreshold,
                                  FittedLines)
     IN  /\ FittedLines' = r.FittedLines
         /\ selected' = IF r.thrown = LC_NO_ERROR THEN r.FittedLines ELSE selected
         /\ call' = Call("findFittedLines", r.thrown, 0)
  /\ UNCHANGED <<lists, config, fitState, CommonLines, DiscardedLines, running>>

\* findCorrection.  gsl_multifit_fdfsolver_alloc (SolverType, NumLines, 1)
\* with NumLines < 1 calls the GSL error handler, which aborts the process
\* (no handler is installed by the program).  Otherwise the solver runs,
\* Solver->x is stored whatever the final status is, and calcDiffStats runs.
FindCorrection ==
  /\ running
  /\ IF Len(FittedLines) < 1
     THEN /\ running' = FALSE
          /\ call' = Call("findCorrection", LC_NO_ERROR, 0)
          /\ UNCHANGED fitState
     ELSE \E o \in SolverOutcomes(FullLineList, StandardList, CommonLines,
                                  FittedLines, WaveCorrection) :
            LET stats == CalcDiffStats(FullLineList, StandardList, CommonLines,
                                       FittedLines, o.x)
            IN  /\ WaveCorrection' = o.x
                /\ WaveCorrectionError' =
                     CorrectionError(FullLineList, StandardList, CommonLines,
                                     FittedLines, o.x)
                /\ DiffMean' = stats.DiffMean
                /\ DiffStdDev' = stats.DiffStdDev
                /\ DiffStdErr' = stats.DiffStdErr
                /\ running' = TRUE
                /\ call' = Call("findCorrection", LC_NO_ERROR, 0)
  /\ UNCHANGED <<lists, config, derived, selected>>

RemoveBadLines ==
  /\ running
  /\ LET r == RemoveBadLinesCall(FullLineList, StandardList, CommonLines,
                WaveCorrection, DiffMean, DiscardLimit, DiffStdDev,
                FittedLines, DiscardedLines)
     IN  /\ FittedLines' = r.FittedLines
         /\ DiscardedLines' = r.DiscardedLines
         /\ call' = Call("removeBadLines", LC_NO_ERROR, r.LinesRemoved)
  /\ UNCHANGED <<lists, config, fitState, CommonLines, running, selected>>

\* saveLineList: nothing is written for an empty FullLineList; the files
\* are taken to open
SaveLineList ==
  /\ running
  /\ IF Len(FullLineList) = 0
     THEN /\ call' = Call("saveLineList", LC_NO_ERROR, LC_NO_DATA)
          /\ UNCHANGED outVars
     ELSE /\ SavedLines' = SavedLinesOf(FullLineList, WaveCorrection)
          /\ LineFile' = ReportRows(SavedLinesOf(FullLineList, WaveCorrection),
                                    WaveCorrectionError, DiffStdDev,
                                    PointSpacing)
          /\ call' = Call("saveLineList", LC_NO_ERROR, LC_NO_ERROR)
  /\ UNCHANGED <<lists, config, fitState, derived, running, selected>>

----------------------------------------------------------------------------
(* The inputs: the files that are loaded and the arguments of the setters *)

\* the line lists of at most MaxLines records with ascending wavenumbers,
\* written without a wavenumber correction ("NO" header, wavcorr = 0)
AscendingRecords(peaks) ==
  UNION { { r \in [1 .. n -> [wavenumber : {Int2Rat(w) : w \in Wavenumbers},
                              peak : {Int2Rat(p) : p \in peaks},
                              width : {Int2Rat(w) : w \in Widths}]] :
              \A i \in 1 .. n - 1 :
                RLess(r[i].wavenumber, r[i + 1].wavenumber) } :
          n \in 0 .. MaxLines }

ListFiles == { [wavcorr |-> Zero, records |-> r] : r \in AscendingRecords(Peaks) }
StandardFiles == { [wavcorr |-> Zero, records |-> r] : r \in AscendingRecords({50}) }

DiscriminatorArgs == { Int2Rat(-1), Int2Rat(2) }
PeakAmpThresholdArgs == { Int2Rat(-1), Int2Rat(50) }
DiscardLimitArgs == { Int2Rat(-1), Int2Rat(0), Int2Rat(1) }

----------------------------------------------------------------------------
(* Spec: one ListCal object used for one calibration.  As main does, the   *)
(* caller sets the parameters, loads the list, loads the standard, and     *)
(* then calls the pipeline methods, here in any order and any number of    *)
(* times, except that the lines are not matched again once FittedLines or  *)
(* DiscardedLines point into CommonLines, and the fit set is not selected  *)
(* again once lines have been discarded (the object serves a single run).  *)

SetterOps ==
  { "ListCal", "setDiscriminator", "setPeakAmpThreshold", "setDiscardLimit" }
Configuring == call.op \in SetterOps
Loaded == call.op \notin SetterOps \cup { "loadLineList" }

CallSetDiscriminator ==
  /\ Configuring
  /\ \E v \in DiscriminatorArgs : SetDiscriminator(v)
  /\ UNCHANGED <<mainVars, lineVars, outVars>>
CallSetPeakAmpThreshold ==
  /\ Configuring
  /\ \E v \in PeakAmpThresholdArgs : SetPeakAmpThreshold(v)
  /\ UNCHANGED <<mainVars, lineVars, outVars>>
CallSetDiscardLimit ==
  /\ Configuring
  /\ \E v \in DiscardLimitArgs : SetDiscardLimit(v)
  /\ UNCHANGED <<mainVars, lineVars, outVars>>
CallLoadLineList ==
  /\ Configuring
  /\ \E f \in ListFiles : LoadLineList(f)
  /\ UNCHANGED <<mainVars, lineVars, outVars>>
CallLoadStandardList ==
  /\ call.op = "loadLineList"
  /\ \E f \in StandardFiles : LoadStandardList(f)
  /\ UNCHANGED <<mainVars, lineVars, outVars>>
CallFindCommonLines ==
  /\ Loaded
  /\ FittedLines = <<>> /\ DiscardedLines = <<>>
  /\ FindCommonLines
  /\ UNCHANGED <<mainVars, lineVars, outVars>>
CallFindFittedLines ==
  /\ Loaded
  /\ DiscardedLines = <<>>
  /\ FindFittedLines
  /\ UNCHANGED <<mainVars, lineVars, outVars>>
CallFindCorrection == Loaded /\ FindCorrection /\ UNCHANGED <<mainVars, lineVars, outVars>>
CallRemoveBadLines == Loaded /\ RemoveBadLines /\ UNCHANGED <<mainVars, lineVars, outVars>>

Next ==
  \/ CallSetDiscriminator
  \/ CallSetPeakAmpThreshold
  \/ CallSetDiscardLimit
  \/ CallLoadLineList
  \/ CallLoadStandardList
  \/ CallFindCommonLines
  \/ CallFindFittedLines
  \/ CallFindCorrection
  \/ CallRemoveBadLines

Spec == Init /\ [][Next]_vars

----------------------------------------------------------------------------
(* SpecReuse: as Spec, but the object is used again: findCommonLines and   *)
(* findFittedLines are called at any time after the lists are loaded.      *)
(* The lists and the discriminator do not change after loading, so a       *)
(* second findCommonLines refills CommonLines with the same pairs in the   *)
(* same storage (clear () keeps the capacity) and the pointers held by     *)
(* FittedLines and DiscardedLines still designate the same pairs.          *)

\* DiscardedLines is never cleared and grows with every reuse: the fit set
\* is selected again only while DiscardedLines holds at most MaxCarried pairs
MaxCarried == 1

ReuseFindCommonLines == Loaded /\ FindCommonLines /\ UNCHANGED <<mainVars, lineVars, outVars>>
ReuseFindFittedLines ==
  /\ Loaded
  /\ Len(DiscardedLines) <= MaxCarried
  /\ FindFittedLines
  /\ UNCHANGED <<mainVars, lineVars, outVars>>

NextReuse ==
  \/ CallSetDiscriminator
  \/ CallSetPeakAmpThreshold
  \/ CallSetDiscardLimit
  \/ CallLoadLineList
  \/ CallLoadStandardList
  \/ ReuseFindCommonLines
  \/ ReuseFindFittedLines
  \/ CallFindCorrection
  \/ CallRemoveBadLines

SpecReuse == Init /\ [][NextReuse]_vars

----------------------------------------------------------------------------
(* SpecMatch: findCommonLines as a function of the two lists and the       *)
(* discriminator.  The lists are any sequences of at most MaxLines lines   *)
(* (ascending or not, with repeated wavenumbers), and the lists of the     *)
(* matching example: 10.00, 20.00, 30.00 against 10.001, 25.00, 30.002     *)
(* with discriminator 0.05.  Loading an empty file afterwards and matching *)
(* again shows what a failed call leaves in CommonLines.                   *)

MatchWavenumbers == 1 .. 3
MatchDiscriminators == { Zero, Rat(1, 10), Int2Rat(1), Int2Rat(2) }

FileOf(ws) ==
  [wavcorr |-> Zero,
   records |-> [i \in 1 .. Len(ws) |-> [wavenumber |-> ws[i], peak |-> Int2Rat(50),
                                 width |-> Int2Rat(10)]]]

MatchFiles ==
  { FileOf(ws) : ws \in UNION { [1 .. n -> {Int2Rat(w) : w \in MatchWavenumbers}] :
                                n \in 0 .. MaxLines } }

ExampleList == FileOf(<<Int2Rat(10), Int2Rat(20), Int2Rat(30)>>)
ExampleStandard == FileOf(<<Rat(10001, 1000), Int2Rat(25), Rat(30002, 1000)>>)
ExampleDiscriminator == Rat(5, 100)

InitMatch ==
  /\ \/ \E f \in MatchFiles, g \in MatchFiles, d \in MatchDiscriminators :
          /\ FullLineList = ReadLineList(f)
          /\ StandardList = ReadLineList(g)
          /\ Discriminator = d
     \/ /\ FullLineList = ReadLineList(ExampleList)
        /\ StandardList = ReadLineList(ExampleStandard)
        /\ Discriminator = ExampleDiscriminator
  /\ CommonLines = <<>>
  /\ FittedLines = <<>>
  /\ DiscardedLines = <<>>
  /\ WaveCorrection = DEF_WAVE_CORRECTION
  /\ WaveCorrectionError = [kind |-> "sqrt", rad |-> Zero]
  /\ PeakAmpThreshold = DEF_PEAK_THRESHOLD
  /\ DiscardLimit = DEF_DISCARD_LIMIT
  /\ PointSpacing = DEF_POINT_SPACING
  /\ DiffMean = Scaled(Zero)
  /\ DiffStdDev = [k |-> LC_DATA_SCALE, rad |-> Zero]
  /\ DiffStdErr = [k |-> LC_DATA_SCALE, rad |-> Zero]
  /\ call = Call("loadStandardList", LC_NO_ERROR, 0)
  /\ running = TRUE
  /\ pc = "args"
  /\ NumLinesRemoved = 0
  /\ rounds = 0
  /\ selected = <<>>
  /\ line = DefaultLine
  /\ LineData = NoLineData
  /\ Operator = DefaultLine
  /\ SavedLines = <<>>
  /\ LineFile = <<>>

MatchFindCommonLines == FindCommonLines /\ UNCHANGED <<mainVars, lineVars, outVars>>
MatchLoadEmptyList == LoadLineList(FileOf(<<>>)) /\ UNCHANGED <<mainVars, lineVars, outVars>>
MatchLoadEmptyStandard == LoadStandardList(FileOf(<<>>)) /\ UNCHANGED <<mainVars, lineVars, outVars>>

NextMatch ==
  \/ MatchFindCommonLines
  \/ MatchLoadEmptyList
  \/ MatchLoadEmptyStandard

SpecMatch == InitMatch /\ [][NextMatch]_vars

----------------------------------------------------------------------------
(* SpecMain: main of ftscalibrate.cpp, one statement per step.  pc names   *)
(* the statement that runs next.  An int thrown by a setter is not caught  *)
(* (the setters are called outside the try block) and terminates the       *)
(* process; an int thrown inside the try block makes main return it.       *)
(* rounds counts the calls of findCorrection; it is not a variable of the  *)
(* program.  A sequential program always runs its next statement, hence    *)
(* the weak fairness of the next-state action.  A call into GSL is taken   *)
(* to return.                                                              *)

MaxRounds == MaxLines + 2
PointSpacingArgs == { Rat(3, 100), Int2Rat(-1) }

Ended == { "done", "exit", "terminated", "aborted" }

\* argc == REQ_NUM_ARGS_2: no parameter is set
MainDefaultArgs ==
  /\ running /\ pc = "args"
  /\ pc' = "loadLineList"
  /\ UNCHANGED <<lists, config, fitState, derived, call, running,
                 NumLinesRemoved, rounds, selected, lineVars, outVars>>

MainSetDiscriminator ==
  /\ pc = "args"
  /\ \E v \in DiscriminatorArgs : SetDiscriminator(v)
  /\ pc' = IF call'.thrown = LC_NO_ERROR THEN "setPeakAmpThreshold" ELSE "terminated"
  /\ UNCHANGED <<NumLinesRemoved, rounds, lineVars, outVars>>

MainSetPeakAmpThreshold ==
  /\ pc = "setPeakAmpThreshold"
  /\ \E v \in PeakAmpThresholdArgs : SetPeakAmpThreshold(v)
  /\ pc' = IF call'.thrown = LC_NO_ERROR THEN "setDiscardLimit" ELSE "terminated"
  /\ UNCHANGED <<NumLinesRemoved, rounds, lineVars, outVars>>

MainSetDiscardLimit ==
  /\ pc = "setDiscardLimit"
  /\ \E v \in DiscardLimitArgs : SetDiscardLimit(v)
  /\ pc' = IF call'.thrown = LC_NO_ERROR THEN "setPointSpacing" ELSE "terminated"
  /\ UNCHANGED <<NumLinesRemoved, rounds, lineVars, outVars>>

MainSetPointSpacing ==
  /\ pc = "setPointSpacing"
  /\ \E v \in PointSpacingArgs : SetPointSpacing(v)
  /\ pc' = "loadLineList"
  /\ UNCHANGED <<NumLinesRemoved, rounds, lineVars, outVars>>

MainLoadLineList ==
  /\ pc = "loadLineList"
  /\ \E f \in ListFiles : LoadLineList(f)
  /\ pc' = "loadStandardList"
  /\ UNCHANGED <<NumLinesRemoved, rounds, lineVars, outVars>>

MainLoadStandardList ==
  /\ pc = "loadStandardList"
  /\ \E f \in StandardFiles : LoadStandardList(f)
  /\ pc' = "findCommonLines"
  /\ UNCHANGED <<NumLinesRemoved, rounds, lineVars, outVars>>

MainFindCommonLines ==
  /\ pc = "findCommonLines"
  /\ FindCommonLines
  /\ pc' = IF call'.thrown = LC_NO_ERROR THEN "findFittedLines" ELSE "exit"
  /\ UNCHANGED <<NumLinesRemoved, rounds, lineVars, outVars>>

MainFindFittedLines ==
  /\ pc = "findFittedLines"
  /\ FindFittedLines
  /\ pc' = IF call'.thrown = LC_NO_ERROR THEN "findCorrection" ELSE "exit"
  /\ UNCHANGED <<NumLinesRemoved, rounds, lineVars, outVars>>

\* do { ListFitter.findCorrection ();
MainFindCorrection ==
  /\ pc = "findCorrection"
  /\ rounds < MaxRounds
  /\ FindCorrection
  /\ rounds' = rounds + 1
  /\ pc' = IF running' THEN "removeBadLines" ELSE "aborted"
  /\ UNCHANGED <<NumLinesRemoved, lineVars, outVars>>

\* if ((NumLinesRemoved = ListFitter.removeBadLines (true)))
MainRemoveBadLines ==
  /\ pc = "removeBadLines"
  /\ RemoveBadLines
  /\ NumLinesRemoved' = call'.value
  /\ pc' = "while"
  /\ UNCHANGED <<rounds, lineVars, outVars>>

\* Faulty variant: the loop body runs once, whatever was removed
MainWhileOnce ==
  /\ running /\ pc = "while"
  /\ pc' = "report"
  /\ UNCHANGED <<lists, config, fitState, derived, call, running,
                 NumLinesRemoved, rounds, selected, lineVars, outVars>>

\* } while (NumLinesRemoved);
MainWhile ==
  /\ running /\ pc = "while"
  /\ pc' = IF NumLinesRemoved # 0 THEN "findCorrection" ELSE "report"
  /\ UNCHANGED <<lists, config, fitState, derived, call, running,
                 NumLinesRemoved, rounds, selected, lineVars, outVars>>

\* the report, saveLineList (which works on a copy of FullLineList and
\* assigns to no member) and return LC_NO_ERROR
MainReport ==
  /\ running /\ pc = "report"
  /\ pc' = "done"
  /\ SaveLineList
  /\ UNCHANGED <<NumLinesRemoved, rounds, lineVars>>

NextMain ==
  \/ MainDefaultArgs
  \/ MainSetDiscriminator
  \/ MainSetPeakAmpThreshold
  \/ MainSetDiscardLimit
  \/ MainSetPointSpacing
  \/ MainLoadLineList
  \/ MainLoadStandardList
  \/ MainFindCommonLines
  \/ MainFindFittedLines
  \/ MainFindCorrection
  \/ MainRemoveBadLines
  \/ MainWhile
  \/ MainReport

PcValues ==
  { "args", "setPeakAmpThreshold", "setDiscardLimit", "setPointSpacing",
    "loadLineList", "loadStandardList", "findCommonLines", "findFittedLines",
    "findCorrection", "removeBadLines", "while", "report" } \cup Ended

\* Every step of NextMain changes pc, and NextMain is enabled exactly when
\* MainAdvance is: main has not ended (and rounds is below its cap).  Weak
\* fairness of NextMain is therefore stated on MainAdvance, which TLC can
\* evaluate without unfolding the recursive operators of the methods.
MainAdvance ==
  /\ pc \notin Ended
  /\ pc = "findCorrection" => rounds < MaxRounds
  /\ pc' \in PcValues
  /\ pc' # pc

SpecMain == Init /\ [][NextMain]_vars /\ WF_pc(MainAdvance)

----------------------------------------------------------------------------
(* SpecFit: main from findCommonLines on, for given lists.  The lists have *)
(* been loaded and the discriminator and the discard limit have been set   *)
(* from the command line; the lines of a list and its standard are 100     *)
(* apart and a line is within FitDiscriminator of its standard.            *)

Seq2Rat(ws) == [i \in 1 .. Len(ws) |-> Int2Rat(ws[i])]

\* the two lists of the exact fit, with the standard 1.01 times the list
ExactList == Seq2Rat(<<100, 200>>)
ExactStandard == Seq2Rat(<<101, 202>>)

\* the same with a third line that is not scaled
OutlierList == Seq2Rat(<<100, 200, 300>>)
OutlierStandard == Seq2Rat(<<101, 202, 300>>)
OutlierDiscardLimit == Int2Rat(2)

FitExamples ==
  { [List |-> ExactList, Standard |-> ExactStandard],
    [List |-> OutlierList, Standard |-> OutlierStandard],
    [List |-> Seq2Rat(<<100>>), Standard |-> Seq2Rat(<<101>>)],
    [List |-> Seq2Rat(<<100, 200, 300>>), Standard |-> Seq2Rat(<<101, 202, 303>>)],
    [List |-> Seq2Rat(<<100, 200, 300>>), Standard |-> Seq2Rat(<<100, 200, 300>>)],
    [List |-> Seq2Rat(<<101, 202>>), Standard |-> Seq2Rat(<<100, 200>>)],
    [List |-> Seq2Rat(<<100, 200, 300>>),
     Standard |-> Seq2Rat(<<100, 202, 303>>)] }

FitDiscriminator == Int2Rat(7)
FitDiscardLimits == { Zero, One, OutlierDiscardLimit, Int2Rat(3) }

\* the wavcorr of the header of the line list: none ("NO" header), or a
\* correction XGremlin applied before the list was written
HeaderCorrections == { Zero, Rat(1, 100) }

InitFit ==
  /\ \E ex \in FitExamples, c \in HeaderCorrections :
       /\ FullLineList = ReadLineList([FileOf(ex.List) EXCEPT !.wavcorr = c])
       /\ StandardList = ReadLineList(FileOf(ex.Standard))
  /\ CommonLines = <<>>
  /\ FittedLines = <<>>
  /\ DiscardedLines = <<>>
  /\ WaveCorrection = DEF_WAVE_CORRECTION
  /\ WaveCorrectionError = [kind |-> "sqrt", rad |-> Zero]
  /\ Discriminator = FitDiscriminator
  /\ PeakAmpThreshold = DEF_PEAK_THRESHOLD
  /\ DiscardLimit \in FitDiscardLimits
  /\ PointSpacing = DEF_POINT_SPACING
  /\ DiffMean = Scaled(Zero)
  /\ DiffStdDev = [k |-> LC_DATA_SCALE, rad |-> Zero]
  /\ DiffStdErr = [k |-> LC_DATA_SCALE, rad |-> Zero]
  /\ call = Call("loadStandardList", LC_NO_ERROR, 0)
  /\ running = TRUE
  /\ pc = "findCommonLines"
  /\ NumLinesRemoved = 0
  /\ rounds = 0
  /\ selected = <<>>
  /\ line = DefaultLine
  /\ LineData = NoLineData
  /\ Operator = DefaultLine
  /\ SavedLines = <<>>
  /\ LineFile = <<>>

NextFit ==
  \/ MainFindCommonLines
  \/ MainFindFittedLines
  \/ MainFindCorrection
  \/ MainRemoveBadLines
  \/ MainWhile
  \/ MainReport

SpecFit == InitFit /\ [][NextFit]_vars

----------------------------------------------------------------------------
(* SpecLine: one Line object.  It is constructed from a text record under  *)
(* the correction of a list header, as readLineList does, and its setters  *)
(* are called in any order with any argument.  The fields of a record are  *)
(* whatever numbers the text holds, negative ones included.  A correction  *)
(* of -1 is left out: createLine would divide by 0.0.                      *)

LineArgs == { Int2Rat(-1), Zero, Int2Rat(2) }
LineCorrections == { Zero, Rat(1, 2), Rat(-1, 2) }
LineRecords ==
  [wavenumber : {Int2Rat(-3), Int2Rat(3)},
   peak : {Int2Rat(-5), Int2Rat(5)},
   width : {Int2Rat(-1), Int2Rat(1)}]

listCalVars ==
  <<lists, config, fitState, derived, running, mainVars, selected, outVars>>

\* Line (LineData, NewWaveCorr)
LineConstruct ==
  \E rec \in LineRecords, c \in LineCorrections :
    /\ line' = CreateLine(rec, c)
    /\ LineData' = rec
    /\ call' = Call("Line::Line", LC_NO_ERROR, 0)
    /\ UNCHANGED <<Operator, listCalVars>>

LineSetWavenumber ==
  \E v \in LineArgs :
    /\ line' = SetLineWavenumber(line, v).line
    /\ call' = Call("Line::wavenumber", SetLineWavenumber(line, v).thrown, 0)
    /\ UNCHANGED <<LineData, Operator, listCalVars>>

LineSetPeak ==
  \E v \in LineArgs :
    /\ line' = SetLinePeak(line, v).line
    /\ call' = Call("Line::peak", SetLinePeak(line, v).thrown, 0)
    /\ UNCHANGED <<LineData, Operator, listCalVars>>

LineSetWidth ==
  \E v \in LineArgs :
    /\ line' = SetLineWidth(line, v).line
    /\ call' = Call("Line::width", SetLineWidth(line, v).thrown, 0)
    /\ UNCHANGED <<LineData, Operator, listCalVars>>

LineSetWavCorr ==
  \E c \in LineCorrections :
    /\ line' = SetLineWavCorr(line, c)
    /\ call' = Call("Line::wavCorr", LC_NO_ERROR, 0)
    /\ UNCHANGED <<LineData, Operator, listCalVars>>

NextLine ==
  \/ LineConstruct
  \/ LineSetWavenumber
  \/ LineSetPeak
  \/ LineSetWidth
  \/ LineSetWavCorr

SpecLine == Init /\ [][NextLine]_vars

\* --------------------------------------------------------------------------
\* Two Line objects, a (the variable line) and b (the variable Operator),
\* and the assignment a = b.  b is built from a record of a line list and
\* the correction of its header, and may be given another correction.
\* --------------------------------------------------------------------------
OperatorConstruct ==
  \E rec \in LineRecords, c \in LineCorrections :
    /\ Operator' = CreateLine(rec, c)
    /\ call' = Call("Line::Line", LC_NO_ERROR, 0)
    /\ UNCHANGED <<line, LineData, listCalVars>>

OperatorSetWavCorr ==
  \E c \in LineCorrections :
    /\ Operator' = SetLineWavCorr(Operator, c)
    /\ call' = Call("Line::wavCorr", LC_NO_ERROR, 0)
    /\ UNCHANGED <<line, LineData, listCalVars>>

\* a = b
LineAssign ==
  /\ line' = AssignLine(Operator)
  /\ call' = Call("Line::operator=", LC_NO_ERROR, 0)
  /\ UNCHANGED <<LineData, Operator, listCalVars>>

NextAssign ==
  \/ OperatorConstruct
  \/ OperatorSetWavCorr
  \/ LineAssign

SpecAssign == Init /\ [][NextAssign]_vars

----------------------------------------------------------------------------
(* Claims about findCommonLines (match), checked under SpecMatch *)

\* non-decreasing reported wavenumbers
IsAscending(lines) ==
  \A i \in 1 .. Len(lines) - 1 :
    RLeq(LineWavenumber(lines[i]), LineWavenumber(lines[i + 1]))

\* The two-pointer merge as the matching contract words it, from the cursor
\* positions i and j (counted from 1): the pairs it emits, in order
RECURSIVE ReferenceMerge(_, _, _, _, _)
ReferenceMerge(list, std, disc, i, j) ==
  IF i > Len(list) \/ j > Len(std)
  THEN <<>>
  ELSE IF RLess(RAbs(RSub(LineWavenumber(std[j]), LineWavenumber(list[i]))), disc)
  THEN <<[List |-> i, Standard |-> j]>> \o ReferenceMerge(list, std, disc, i + 1, j + 1)
  ELSE IF RLess(LineWavenumber(std[j]), LineWavenumber(list[i]))
  THEN ReferenceMerge(list, std, disc, i, j + 1)
  ELSE ReferenceMerge(list, std, disc, i + 1, j)

\* the last call was a findCommonLines that got past the check for empty lists
Matched == call.op = "findCommonLines" /\ call.thrown # LC_NO_DATA

IsExample ==
  /\ FullLineList = ReadLineList(ExampleList)
  /\ StandardList = ReadLineList(ExampleStandard)
  /\ Discriminator = ExampleDiscriminator

\* C1: for ascending lists, findCommonLines leaves exactly the pairs of the
\* reference two-pointer merge (strict comparison with the discriminator,
\* both cursors advance on a pair, otherwise the cursor of the smaller
\* wavenumber), in increasing order of both indices; on the example lists
\* these are the pairs (10.00, 10.001) and (30.00, 30.002).
C1_MatchIsTwoPointerMerge ==
  (Matched /\ IsAscending(FullLineList) /\ IsAscending(StandardList)) =>
    /\ CommonLines = ReferenceMerge(FullLineList, StandardList, Discriminator, 1, 1)
    /\ \A k \in 1 .. Len(CommonLines) - 1 :
         /\ CommonLines[k].List < CommonLines[k + 1].List
         /\ CommonLines[k].Standard < CommonLines[k + 1].Standard
    /\ IsExample =>
         CommonLines = <<[List |-> 1, Standard |-> 1], [List |-> 3, Standard |-> 3]>>

\* a match on ascending lists that paired some lines and skipped a line of
\* each list
C1_Witness ==
  /\ Matched
  /\ IsAscending(FullLineList) /\ IsAscending(StandardList)
  /\ Len(CommonLines) = 2
  /\ Len(FullLineList) = 3 /\ Len(StandardList) = 3
  /\ CommonLines[2].List = 3 /\ CommonLines[2].Standard = 3

\* C2: the matching is one-to-one: no line of the list and no line of the
\* standard is in two pairs of CommonLines (for any lists, ascending or not).
C2_MatchIsOneToOne ==
  Matched =>
    \A k, l \in 1 .. Len(CommonLines) :
      k # l => /\ CommonLines[k].List # CommonLines[l].List
               /\ CommonLines[k].Standard # CommonLines[l].Standard

\* a successful match with two pairs of lines of equal wavenumber, where a
\* line could have been taken twice
C2_Witness ==
  /\ Matched /\ call.thrown = LC_NO_ERROR
  /\ Len(CommonLines) >= 2
  /\ LineWavenumber(FullLineList[CommonLines[1].List]) =
       LineWavenumber(FullLineList[CommonLines[2].List])

\* C3: findCommonLines throws LC_NO_DATA exactly when one of the lists is
\* empty, and that call leaves CommonLines as it was.
C3_NoDataOnEmptyList ==
  [][call'.op = "findCommonLines" =>
       /\ (call'.thrown = LC_NO_DATA) <=>
             (Len(FullLineList) = 0 \/ Len(StandardList) = 0)
       /\ call'.thrown = LC_NO_DATA => CommonLines' = CommonLines]_vars

\* a call that threw LC_NO_DATA with pairs of an earlier match in CommonLines
C3_Witness ==
  /\ call.op = "findCommonLines" /\ call.thrown = LC_NO_DATA
  /\ Len(CommonLines) > 0
  /\ Len(StandardList) = 0 /\ Len(FullLineList) > 0

\* some line of the list is within the discriminator of some standard line
SomePairInRange ==
  \E i \in 1 .. Len(FullLineList), j \in 1 .. Len(StandardList) :
    RLess(RAbs(RSub(LineWavenumber(StandardList[j]),
                    LineWavenumber(FullLineList[i]))), Discriminator)

\* C4: with two non-empty lists, findCommonLines throws LC_NO_OVERLAP if
\* and only if the merge paired nothing; it always does with discriminator
\* 0, it never does when it paired a line, and it returns only if some
\* list line lies within the discriminator of some standard line.
C4_NoOverlapIffNoPairs ==
  (Matched /\ Len(FullLineList) > 0 /\ Len(StandardList) > 0) =>
    /\ (call.thrown = LC_NO_OVERLAP) <=>
         (ReferenceMerge(FullLineList, StandardList, Discriminator, 1, 1) = <<>>)
    /\ call.thrown \in {LC_NO_OVERLAP, LC_NO_ERROR}
    /\ (call.thrown = LC_NO_OVERLAP) <=> (Len(CommonLines) = 0)
    /\ Discriminator = Zero => call.thrown = LC_NO_OVERLAP
    /\ call.thrown = LC_NO_ERROR => SomePairInRange

\* LC_NO_OVERLAP although a list line is within the discriminator of a
\* standard line: the merge never compared the two
C4_Witness ==
  /\ Matched /\ call.thrown = LC_NO_OVERLAP
  /\ Len(FullLineList) > 0 /\ Len(StandardList) > 0
  /\ Discriminator # Zero
  /\ SomePairInRange

----------------------------------------------------------------------------
(* Claims about findFittedLines, removeBadLines and the fit/reject rounds, *)
(* checked under Spec                                                      *)

Range(s) == { s[i] : i \in 1 .. Len(s) }
IsStrictlyIncreasing(s) == \A i \in 1 .. Len(s) - 1 : s[i] < s[i + 1]
IsPrefix(s, t) == Len(s) <= Len(t) /\ SubSeq(t, 1, Len(s)) = s

\* the pairs of CommonLines whose list line has an amplitude of at least
\* the threshold
StrongPairs ==
  { k \in 1 .. Len(CommonLines) :
      ~RLess(LinePeak(FullLineList[CommonLines[k].List]), PeakAmpThreshold) }

\* C5: a call of findFittedLines leaves CommonLines unchanged, throws
\* LC_NO_DATA if and only if CommonLines is empty, and otherwise sets
\* FittedLines to exactly the pairs of CommonLines whose list line has an
\* amplitude >= PeakAmpThreshold (equality included), in the order of
\* CommonLines.
C5_FittedLinesAreStrongPairs ==
  [][call'.op = "findFittedLines" =>
       /\ CommonLines' = CommonLines
       /\ (call'.thrown = LC_NO_DATA) <=> (Len(CommonLines) = 0)
       /\ call'.thrown \in {LC_NO_DATA, LC_NO_ERROR}
       /\ call'.thrown = LC_NO_ERROR =>
            /\ IsStrictlyIncreasing(FittedLines')
            /\ Range(FittedLines') = StrongPairs]_vars

\* a selection that kept a pair whose amplitude equals the threshold and
\* dropped a weaker one
C5_Witness ==
  /\ call.op = "findFittedLines" /\ call.thrown = LC_NO_ERROR
  /\ Len(FittedLines) >= 1
  /\ Len(FittedLines) < Len(CommonLines)
  /\ \E k \in 1 .. Len(FittedLines) :
       LinePeak(FullLineList[CommonLines[FittedLines[k]].List]) = PeakAmpThreshold

\* d_i / LC_DATA_SCALE for the pair at position ptr of CommonLines, with the
\* stored correction
ScaledResidual(ptr) ==
  LET L == LineWavenumber(FullLineList[CommonLines[ptr].List])
      S == LineWavenumber(StandardList[CommonLines[ptr].Standard])
  IN  RDiv(RSub(RMul(L, RAdd(One, WaveCorrection)), S), S)

\* |d_i| > |DiffMean| + DiscardLimit * DiffStdDev with the stored statistics
\* (DiscardLimit >= 0, so both sides of e > DiscardLimit * sqrt(var) can be
\* squared when e > 0)
ExceedsLimit(ptr) ==
  LET e == RSub(RAbs(ScaledResidual(ptr)), RAbs(DiffMean.x))
  IN  /\ RLess(Zero, e)
      /\ RLess(RMul(RMul(DiscardLimit, DiscardLimit), DiffStdDev.rad), RMul(e, e))

BadLines == { ptr \in Range(FittedLines) : ExceedsLimit(ptr) }

C7_FitSetShrinksDiscardedGrows ==
  [][call'.op \in {"findCorrection", "removeBadLines"} =>
       /\ FittedLines' = SelectSeq(FittedLines,
                                   LAMBDA ptr : ptr \in Range(FittedLines'))
       /\ IsPrefix(DiscardedLines, DiscardedLines')
       /\ Range(FittedLines') \cap Range(DiscardedLines') = {}]_vars

\* two passes of removeBadLines have each discarded a pair and one pair is
\* still fitted
C7_Witness ==
  /\ call.op = "removeBadLines" /\ call.value = 1
  /\ Len(DiscardedLines) = 2
  /\ Len(FittedLines) = 1

\* C9: a call of findCorrection made while FittedLines holds no pair or a
\* single pair is signalled by a thrown error code: the solver is not run,
\* the process goes on, and WaveCorrection, WaveCorrectionError, DiffMean,
\* DiffStdDev and DiffStdErr are not written.
C9_SmallFitSetIsSignalled ==
  [][(call'.op = "findCorrection" /\ Len(FittedLines) <= 1) =>
       /\ call'.thrown # LC_NO_ERROR
       /\ running'
       /\ UNCHANGED fitState]_vars

\* C10: a call of removeBadLines that returns 0 leaves WaveCorrection,
\* WaveCorrectionError, DiffMean, DiffStdDev, DiffStdErr, FittedLines and
\* DiscardedLines unchanged, and the next call of removeBadLines, made with
\* no call of findCorrection in between, returns 0 again and leaves the two
\* vectors as they are (so does every further one).
C10_RejectIsIdempotent ==
  [][(call'.op = "removeBadLines" /\ call'.value = 0) =>
       /\ UNCHANGED <<fitState, FittedLines, DiscardedLines>>
       /\ RemoveBadLinesCall(FullLineList', StandardList', CommonLines',
            WaveCorrection', DiffMean', DiscardLimit', DiffStdDev',
            FittedLines', DiscardedLines')
          = [FittedLines |-> FittedLines', DiscardedLines |-> DiscardedLines',
             LinesRemoved |-> 0]]_vars

\* removeBadLines returned 0 on a fit set from which an earlier pass had
\* discarded a pair: the stored statistics are those of the larger set
C10_Witness ==
  /\ call.op = "removeBadLines" /\ call.value = 0
  /\ Len(DiscardedLines) >= 1
  /\ Len(FittedLines) >= 2

----------------------------------------------------------------------------
(* Claims about the loop of main, checked under SpecMain *)

\* C8: the do-while loop of main ends: main reaches its return, or the
\* process is ended by an int thrown or by the GSL error handler; when
\* findCorrection is about to be called again, FittedLines is shorter than
\* the selected fit set by at least the number of calls made, so
\* findCorrection is called at most (size of the selected fit set) + 1 times.
C8_LoopTerminates ==
  /\ [](/\ rounds <= Len(selected) + 1
        /\ pc = "findCorrection" => rounds + Len(FittedLines) <= Len(selected))
  /\ <>(pc \in Ended)

\* main returned after three rounds: two of them removed a line
C8_Witness ==
  /\ pc = "done"
  /\ rounds = 3
  /\ Len(selected) = 3

----------------------------------------------------------------------------
(* Claims about the order of the calls and the configuration *)

\* C11: a pipeline method called before the method that must precede it
\* fails with a thrown error code and changes nothing.  Stated for the
\* first pipeline call made on the loaded lists: findFittedLines,
\* findCorrection and removeBadLines called before any findCommonLines
\* throw, leave the process running and leave CommonLines, FittedLines,
\* DiscardedLines and the fit state as they are.
C11_OutOfOrderCallFails ==
  [][(/\ call.op = "loadStandardList"
      /\ call'.op \in {"findFittedLines", "findCorrection", "removeBadLines"}) =>
       /\ call'.thrown # LC_NO_ERROR
       /\ running'
       /\ UNCHANGED <<fitState, derived>>]_vars

\* C12: a call of findCommonLines or findFittedLines on an object that
\* already holds derived state is rejected or clears the derived state:
\* after a call that returned, FittedLines and DiscardedLines hold only
\* pairs of the current CommonLines and no pair is in both.
C12_NoDerivedStateCarriedOver ==
  [][(/\ call'.op \in {"findCommonLines", "findFittedLines"}
      /\ call'.thrown = LC_NO_ERROR) =>
       /\ Range(FittedLines') \cup Range(DiscardedLines') \subseteq
            1 .. Len(CommonLines')
       /\ Range(FittedLines') \cap Range(DiscardedLines') = {}]_vars

\* C13: Discriminator, PeakAmpThreshold, DiscardLimit and PointSpacing are
\* never negative.
C13_ConfigurationIsNonNegative ==
  /\ RSign(Discriminator) >= 0
  /\ RSign(PeakAmpThreshold) >= 0
  /\ RSign(DiscardLimit) >= 0
  /\ RSign(PointSpacing) >= 0

----------------------------------------------------------------------------
(* Claims about Line, checked under SpecLine *)

LineFields == {"Wavenumber", "Peak", "Width", "WavenumberCorrection"}

\* the call r leaves every field of l but f as it was
OnlyFieldChanged(l, r, f) == \A g \in LineFields \ {f} : r.line[g] = l[g]

\* C14: each of the setters of wavenumber, width and peak refuses a negative
\* argument by throwing the code of its own field, the three codes being
\* different, and then leaves the line as it was; it stores any argument
\* >= 0, zero included, in its field and changes no other field.
C14_LineSettersRefuseNegative ==
  /\ Cardinality({LINE_NEGATIVE_WAVENUMBER, LINE_NEGATIVE_PEAK,
                  LINE_NEGATIVE_WIDTH, LC_NO_ERROR}) = 4
  /\ \A v \in LineArgs :
       LET w == SetLineWavenumber(line, v)
           p == SetLinePeak(line, v)
           d == SetLineWidth(line, v)
       IN  IF RSign(v) < 0
           THEN /\ w = [thrown |-> LINE_NEGATIVE_WAVENUMBER, line |-> line]
                /\ p = [thrown |-> LINE_NEGATIVE_PEAK, line |-> line]
                /\ d = [thrown |-> LINE_NEGATIVE_WIDTH, line |-> line]
           ELSE /\ w.thrown = LC_NO_ERROR /\ w.line.Wavenumber = v
                /\ OnlyFieldChanged(line, w, "Wavenumber")
                /\ p.thrown = LC_NO_ERROR /\ p.line.Peak = v
                /\ OnlyFieldChanged(line, p, "Peak")
                /\ d.thrown = LC_NO_ERROR /\ d.line.Width = v
                /\ OnlyFieldChanged(line, d, "Width")
  /\ (call.op = "Line::wavenumber" /\ call.thrown # LC_NO_ERROR) =>
       call.thrown = LINE_NEGATIVE_WAVENUMBER
  /\ (call.op = "Line::peak" /\ call.thrown # LC_NO_ERROR) =>
       call.thrown = LINE_NEGATIVE_PEAK
  /\ (call.op = "Line::width" /\ call.thrown # LC_NO_ERROR) =>
       call.thrown = LINE_NEGATIVE_WIDTH

\* a setter has refused its argument on a line whose width is not 0, and
\* the width is still there
C14_Witness ==
  /\ call.op = "Line::width"
  /\ call.thrown = LINE_NEGATIVE_WIDTH
  /\ RSign(line.Width) > 0

\* C15: the wavenumber, the peak and the width of a Line are >= 0 however
\* the line was built, the construction from a text record included.
C15_LineFieldsAreNonNegative ==
  /\ RSign(line.Wavenumber) >= 0
  /\ RSign(line.Peak) >= 0
  /\ RSign(line.Width) >= 0

\* C16: wavCorr (c) changes the correction and no other field; after it the
\* line reports its stored wavenumber times 1 + c and its stored width
\* times 1 + c, the peak it reported before, and with c = 0 the stored
\* wavenumber and width themselves.
C16_CorrectionScalesWavenumberAndWidth ==
  [][call'.op = "Line::wavCorr" =>
       LET c == LineWavCorr(line')
       IN  /\ line' = [line EXCEPT !.WavenumberCorrection = c]
           /\ LineWavenumber(line') = RMul(line.Wavenumber, RAdd(One, c))
           /\ LineWidth(line') = RMul(line.Width, RAdd(One, c))
           /\ LinePeak(line') = LinePeak(line)
           /\ c = Zero => /\ LineWavenumber(line') = line.Wavenumber
                          /\ LineWidth(line') = line.Width]_vars

\* a correction other than 0 was set on a line with a width and a
\* wavenumber, which it now reports scaled
C16_Witness ==
  /\ call.op = "Line::wavCorr"
  /\ LineWavCorr(line) # Zero
  /\ RSign(line.Width) > 0
  /\ LineWidth(line) # line.Width
  /\ LineWavenumber(line) # line.Wavenumber

----------------------------------------------------------------------------
(* Claims about the fit of given lists, checked under SpecFit *)

\* the solver has stopped where the iteration does not move: J^T f = 0
FitConverged ==
  /\ Len(FittedLines) >= 1
  /\ JtF(FullLineList, StandardList, CommonLines, FittedLines,
         WaveCorrection) = Zero

\* standard / list - 1 of the first line of the fit set
FitRatio ==
  RSub(RDiv(StdWavenumber(StandardList, CommonLines, FittedLines[1]),
            ListWavenumber(FullLineList, CommonLines, FittedLines[1])), One)

\* every line of the fit set has its standard at 1 + FitRatio times itself
AllSameRatio ==
  /\ Len(FittedLines) >= 1
  /\ \A i \in 1 .. Len(FittedLines) :
       StdWavenumber(StandardList, CommonLines, FittedLines[i]) =
         RMul(ListWavenumber(FullLineList, CommonLines, FittedLines[i]),
              RAdd(One, FitRatio))

ReportedWavenumbers(list) == [i \in 1 .. Len(list) |-> LineWavenumber(list[i])]

\* the two scaled lines and the unscaled third, with a discard limit of 2
IsOutlierExample ==
  /\ ReportedWavenumbers(FullLineList) = OutlierList
  /\ ReportedWavenumbers(StandardList) = OutlierStandard
  /\ DiscardLimit = OutlierDiscardLimit

C20_DivergenceIsReported ==
  (call.op = "findCorrection" /\ running /\ call.thrown = LC_NO_ERROR) =>
    FitConverged

----------------------------------------------------------------------------
(* The calibration report                                                  *)

\* a >= b as double compares: false when either is NaN
HypotGeq(a, b) ==
  /\ a.kind # "nan" /\ b.kind # "nan"
  /\ ~HypotLess(a, b)

\* saveLineList has just written its two files
ReportWritten ==
  /\ call.op = "saveLineList"
  /\ call.value = LC_NO_ERROR

\* the two estimates of the error of the i-th saved line, from the fit state
\* and the line
ErrorA(i) ==
  LET w == LineWavenumber(SavedLines[i])
  IN  Hypot(Times(w, WaveCorrectionError), Times(w, Root(DiffStdDev.rad)))

ErrorB(i) ==
  LET w == LineWavenumber(SavedLines[i])
  IN  Hypot(Times(w, WaveCorrectionError),
            Times(One, GetCentroidError(SavedLines[i], PointSpacing)))

\* C21: in every row of the report the final error is the larger of
\* errorA = wavenumber * sqrt (correctionError^2 + (residualStdDev / K)^2)
\* and errorB = sqrt ((wavenumber * correctionError)^2 + centroidError^2):
\* it is one of the two, it is >= errorA, >= errorB and >= wavenumber *
\* correctionError.
C21_FinalErrorIsTheLarger ==
  ReportWritten =>
    \A i \in 1 .. Len(LineFile) :
      /\ LineFile[i].FullError \in { ErrorA(i), ErrorB(i) }
      /\ HypotGeq(LineFile[i].FullError, ErrorA(i))
      /\ HypotGeq(LineFile[i].FullError, ErrorB(i))
      /\ LineFile[i].FullError.kind # "nan"
      /\ WaveCorrectionError.kind # "nan"

----------------------------------------------------------------------------
(* The state main reports                                                  *)

\* the mean, the population variance and the variance of the mean of the
\* residuals d_i / LC_DATA_SCALE of the pairs of a fit set, with the
\* stored correction
ResidualSum(fitted) ==
  RSum([i \in 1 .. Len(fitted) |-> ScaledResidual(fitted[i])])

ResidualMean(fitted) == RDiv(ResidualSum(fitted), Int2Rat(Len(fitted)))

ResidualVariance(fitted) ==
  RDiv(RSum([i \in 1 .. Len(fitted) |->
               RSq(RSub(ScaledResidual(fitted[i]), ResidualMean(fitted)))]),
       Int2Rat(Len(fitted)))

\* the stored statistics are those of the stored FittedLines at the stored
\* correction
StatsAreOfFittedLines ==
  /\ DiffMean.x = ResidualMean(FittedLines)
  /\ DiffStdDev.rad = ResidualVariance(FittedLines)
  /\ DiffStdErr.rad = RDiv(ResidualVariance(FittedLines),
                           Int2Rat(Len(FittedLines)))

\* C22: when the loop of main has stopped (removeBadLines returned 0), the
\* stored correction, its error and the residual statistics are those of the
\* last fit on the stored FittedLines, no pair of FittedLines has |d_i| >
\* |DiffMean| + DiscardLimit * DiffStdDev, and FittedLines and DiscardedLines
\* together are exactly the pairs findFittedLines selected.
C22_StoppedLoopIsConsistent ==
  (running /\ pc \in { "report", "done" }) =>
    /\ NumLinesRemoved = 0
    /\ Len(FittedLines) >= 1
    /\ StatsAreOfFittedLines
    /\ WaveCorrectionError =
         CorrectionError(FullLineList, StandardList, CommonLines,
                         FittedLines, WaveCorrection)
    /\ BadLines = {}
    /\ Range(FittedLines) \cup Range(DiscardedLines) = Range(selected)
    /\ Range(FittedLines) \cap Range(DiscardedLines) = {}
    /\ Len(FittedLines) + Len(DiscardedLines) = Len(selected)

\* main has stopped after a round that discarded a pair
C22_Witness ==
  /\ running /\ pc = "report"
  /\ rounds >= 2
  /\ Len(DiscardedLines) >= 1
  /\ Len(FittedLines) >= 1

----------------------------------------------------------------------------
(* The corrected line list                                                 *)

\* C23: the wavenumber written for every line is the wavenumber the fit
\* used for the line (what the line of FullLineList reports) times 1 +
\* WaveCorrection, also for a list whose header carried a correction, and
\* the header carries the correction the fields were written with.
C23_WrittenListCarriesTheCorrection ==
  ReportWritten =>
    LET file == WriteLines(SavedLines)
    IN  /\ Len(file.records) = Len(FullLineList)
        /\ \A i \in 1 .. Len(FullLineList) :
             file.records[i].wavenumber =
               RMul(LineWavenumber(FullLineList[i]), RAdd(One, WaveCorrection))
        /\ file.wavcorr = WaveCorrection

\* the lines of FullLineList that are still in the fit set
SurvivingLines == { CommonLines[FittedLines[k]].List : k \in 1 .. Len(FittedLines) }

\* C24: the report has one row per surviving line, that is per line of the
\* final fit set, and no row for a line that was discarded, was below the
\* amplitude threshold or was left unmatched.
C24_ReportRowsAreTheSurvivingLines ==
  ReportWritten =>
    /\ Len(LineFile) = Len(FittedLines)
    /\ { LineFile[i].n : i \in 1 .. Len(LineFile) } = SurvivingLines

----------------------------------------------------------------------------
(* The optimum of the fit                                                  *)

\* L_i / S_i for the pair at position ptr of CommonLines
PairRatio(ptr) ==
  RDiv(LineWavenumber(FullLineList[CommonLines[ptr].List]),
       LineWavenumber(StandardList[CommonLines[ptr].Standard]))

\* e* = [sum (L_i / S_i) * ((S_i - L_i) / S_i)] / [sum (L_i / S_i)^2], the
\* minimum of sum r_i(e)^2 for r_i(e) = (L_i * (1 + e) - S_i) / S_i
LeastSquaresOptimum(fitted) ==
  RDiv(RSum([i \in 1 .. Len(fitted) |->
               RMul(PairRatio(fitted[i]), RSub(One, PairRatio(fitted[i])))]),
       RSum([i \in 1 .. Len(fitted) |-> RSq(PairRatio(fitted[i]))]))

\* C25: the correction a converged findCorrection stores is the least-squares
\* optimum e* of the residuals (L_i * (1 + e) - S_i) / S_i, and the
\* derivative handed to the solver for residual i is LC_DATA_SCALE * L_i /
\* S_i.
C25_CorrectionIsLeastSquaresOptimum ==
  (running /\ call.op = "findCorrection" /\ FitConverged) =>
    /\ WaveCorrection = LeastSquaresOptimum(FittedLines)
    /\ \A i \in 1 .. Len(FittedLines) :
         DerivFn(FullLineList, StandardList, CommonLines, FittedLines, i) =
           RMul(Int2Rat(LC_DATA_SCALE), PairRatio(FittedLines[i]))

----------------------------------------------------------------------------
(* The residual statistics                                                 *)

\* C26: after a findCorrection that returned, with d_i = LC_DATA_SCALE *
\* (L_i * (1 + WaveCorrection) - S_i) / S_i over the n >= 1 pairs of
\* FittedLines, DiffMean = sum d_i / n, DiffStdDev = sqrt (sum (d_i -
\* DiffMean)^2 / n), DiffStdErr = DiffStdDev / sqrt (n); the pairs of
\* DiscardedLines do not enter, and DiffStdDev >= 0.
C26_StatsAreThoseOfTheFitSet ==
  (running /\ call.op = "findCorrection") =>
    /\ Len(FittedLines) >= 1
    /\ StatsAreOfFittedLines
    /\ DiffMean.k = LC_DATA_SCALE
    /\ DiffStdDev.k = LC_DATA_SCALE
    /\ DiffStdErr.k = LC_DATA_SCALE
    /\ RLeq(Zero, DiffStdDev.rad)

\* a fit of two or more pairs after a pair was discarded, with residuals
\* that differ and a mean that is not zero
C26_Witness ==
  /\ running /\ call.op = "findCorrection"
  /\ Len(FittedLines) >= 2
  /\ Len(DiscardedLines) >= 1
  /\ DiffMean.x # Zero
  /\ DiffStdDev.rad # Zero

----------------------------------------------------------------------------
(* The partition of the selected fit set                                   *)

\* no element occurs twice in the sequence
NoDuplicates(q) == Cardinality(Range(q)) = Len(q)

\* C27: after a findFittedLines that selected a fit set and after every
\* findCorrection and removeBadLines that follows, FittedLines and
\* DiscardedLines are disjoint, neither holds a pair twice, together they are
\* exactly the selected pairs, and both point into CommonLines; a
\* removeBadLines shortens FittedLines and lengthens DiscardedLines by the
\* value it returns, and a findCorrection changes neither.
C27_FitSetIsPartitioned ==
  [][(\/ call'.op \in { "findCorrection", "removeBadLines" }
      \/ call'.op = "findFittedLines" /\ call'.thrown = LC_NO_ERROR) =>
       /\ Range(FittedLines') \cap Range(DiscardedLines') = {}
       /\ NoDuplicates(FittedLines') /\ NoDuplicates(DiscardedLines')
       /\ Range(FittedLines') \cup Range(DiscardedLines') = Range(selected')
       /\ Len(FittedLines') + Len(DiscardedLines') = Len(selected')
       /\ Range(selected') \subseteq 1 .. Len(CommonLines')
       /\ call'.op = "removeBadLines" =>
            /\ selected' = selected
            /\ Len(FittedLines') = Len(FittedLines) - call'.value
            /\ Len(DiscardedLines') = Len(DiscardedLines) + call'.value
       /\ call'.op = "findCorrection" =>
            /\ selected' = selected
            /\ FittedLines' = FittedLines
            /\ DiscardedLines' = DiscardedLines]_vars

\* a fit on two pairs after a removeBadLines discarded one of three
C27_Witness ==
  /\ call.op = "findCorrection" /\ running
  /\ Len(selected) = 3
  /\ Len(FittedLines) = 2
  /\ Len(DiscardedLines) = 1

----------------------------------------------------------------------------
(* The fit set after a round of removeBadLines                             *)

\* C28: with DiscardLimit >= 1, a removeBadLines called on a non-empty
\* FittedLines with the statistics calcDiffStats computed for it leaves at
\* least one pair in FittedLines.
C28_RoundKeepsAPair ==
  [][(/\ call'.op = "removeBadLines"
      /\ Len(FittedLines) >= 1
      /\ StatsAreOfFittedLines
      /\ RLeq(One, DiscardLimit)) =>
       Len(FittedLines') >= 1]_vars

\* with DiscardLimit = 1 a round discarded a pair and kept the others
C28_Witness ==
  /\ pc = "while"
  /\ call.op = "removeBadLines" /\ call.value >= 1
  /\ DiscardLimit = One
  /\ Len(FittedLines) >= 1

\* with DiscardLimit = 0 a round discarded every pair of a fit set of two
RoundEmptiedFitSet ==
  /\ pc = "while"
  /\ call.op = "removeBadLines" /\ call.value = 2
  /\ DiscardLimit = Zero
  /\ Len(FittedLines) = 0

----------------------------------------------------------------------------
(* The lines findCommonLines leaves unmatched                              *)

UnmatchedListLines ==
  { i \in 1 .. Len(FullLineList) :
      \A k \in 1 .. Len(CommonLines) : CommonLines[k].List # i }

UnmatchedStandardLines ==
  { j \in 1 .. Len(StandardList) :
      \A k \in 1 .. Len(CommonLines) : CommonLines[k].Standard # j }

\* C29: for ascending lists, after findCommonLines no unmatched line of the
\* list and unmatched line of the standard differ by less than the
\* discriminator, the lines behind the final cursor positions included.
C29_MatchIsMaximal ==
  (Matched /\ IsAscending(FullLineList) /\ IsAscending(StandardList)) =>
    \A i \in UnmatchedListLines, j \in UnmatchedStandardLines :
      ~RLess(RAbs(RSub(LineWavenumber(StandardList[j]),
                       LineWavenumber(FullLineList[i]))), Discriminator)

\* a match on ascending lists of three lines that paired the last line of
\* the list, left a line of the list unmatched and never visited the last
\* line of the standard
C29_Witness ==
  /\ Matched /\ call.thrown = LC_NO_ERROR
  /\ IsAscending(FullLineList) /\ IsAscending(StandardList)
  /\ Len(FullLineList) = 3 /\ Len(StandardList) = 3
  /\ UnmatchedListLines # {}
  /\ CommonLines[Len(CommonLines)].List = 3
  /\ CommonLines[Len(CommonLines)].Standard = 2
  /\ 3 \in UnmatchedStandardLines

----------------------------------------------------------------------------
(* Assignment of a Line, checked under SpecAssign                          *)

\* C30: after a = b, a reports the wavenumber, the width, the correction
\* and the peak that b reports, whatever the correction of b is.
C30_AssignmentPreservesTheLine ==
  call.op = "Line::operator=" =>
    /\ LineWavenumber(line) = LineWavenumber(Operator)
    /\ LineWidth(line) = LineWidth(Operator)
    /\ LineWavCorr(line) = LineWavCorr(Operator)
    /\ LinePeak(line) = LinePeak(Operator)

============================================================================
